---------------------------- MODULE Spec2Model ----------------------------
(***************************************************************************)
(* Model of src/trading/app.py: a Flask application that pulls one month   *)
(* of daily prices per ticker of NIFTY_100 and serves four analytics:      *)
(* auto_trends, momentum_stocks, high_low_performers and                   *)
(* moving_average_stocks.                                                  *)
(*                                                                         *)
(* Prices are integers in hundredths of a rupee, so Close.round(2) keeps a *)
(* close as it is; a percentage rounded to two decimals is an integer      *)
(* number of hundredths of a percent.  A data frame is modelled by what    *)
(* the handlers read of it: whether it is empty, its column names and its  *)
(* Close column.  The date index (as_of, dates) is not modelled.  Every    *)
(* close is a valid positive price (no NaN): under that reading of the     *)
(* data, to_numeric/dropna of calculate_momentum_data (lines 118-122) keep *)
(* every row.                                                              *)
(***************************************************************************)
EXTENDS Integers, Sequences, FiniteSets, TLC

(***************************************************************************)
(* Bounds of the model.                                                    *)
(***************************************************************************)
\* Number of tickers of NIFTY_100 that are modelled (the source lists 10).
NumTickers == 3
\* Longest Close column the streak scan is explored on, exhaustively.
MaxLen == 7
\* Longest run of same-direction days in the frames a request may fetch.
MaxRun == 4
\* Number of requests served one after the other.
MaxRequests == 2
\* Price level the modelled series start from, in hundredths.
Base == 2000
\* Largest per-day slope / deviation, in hundredths, of the fetched frames.
MaxTick == 1

(***************************************************************************)
(* Program constants.                                                      *)
(***************************************************************************)
STREAK_MIN == 3
TAIL_DAYS == 7
PERIODS == 5
TOP_N == 3
SMA_PERIOD == 20

\* A response: the HTTP status with the JSON body's members (those a body
\* does not have are empty).
NoResponse ==
  [status |-> 0, error |-> "", rows |-> << >>,
   high |-> << >>, low |-> << >>, period |-> "", N |-> 0]

Symbols ==
  << "RELIANCE.NS", "TCS.NS", "INFY.NS", "HDFCBANK.NS", "ICICIBANK.NS",
     "SBIN.NS", "BHARTIARTL.NS", "HINDUNILVR.NS", "ITC.NS", "LT.NS" >>

VARIABLES
  NIFTY_100,  \* the module-level ticker list
  endpoint,   \* the handler that runs or ran last ("none" before the first)
  running,    \* whether that handler has yet to return
  requests,   \* how many requests have been started
  k,          \* position in NIFTY_100 of the next ticker of the running loop
  fetched,    \* what yf.download gave for each ticker of this request so far
  results,    \* the handler's local list `results`
  response,   \* what the last finished handler returned
  Close,      \* df["Close"] of the ticker under the streak scan
  i,          \* the scan's loop index (1-based: Python's i + 1)
  streak,     \* the scan's counter
  trend,      \* the scan's direction: "fall", "rise" or "None"
  emitted,    \* the rows the scan appended for this ticker
  pc          \* "scan" while the scan's loop runs, "done" after it

vars == << NIFTY_100, endpoint, running, requests, k, fetched, results,
           response, Close, i, streak, trend, emitted, pc >>
reqVars == << NIFTY_100, endpoint, running, requests, k, fetched, results,
              response >>
scanVars == << Close, i, streak, trend, emitted, pc >>

(***************************************************************************)
(* Arithmetic.                                                             *)
(***************************************************************************)
\* Python's round() of the quotient a / b (b > 0) to an integer: to the
\* nearest, a tie to the even neighbour.
RoundDiv(a, b) ==
  LET q == (2 * a + b) \div (2 * b)
  IN  IF (2 * a + b) % (2 * b) = 0 /\ q % 2 # 0 THEN q - 1 ELSE q

Min(a, b) == IF a < b THEN a ELSE b

RECURSIVE SumSeq(_)
SumSeq(s) == IF s = << >> THEN 0 ELSE Head(s) + SumSeq(Tail(s))

\* DataFrame.head(n) and DataFrame.tail(n) on a list of rows.
head(s, n) == SubSeq(s, 1, Min(n, Len(s)))
tail(s, n) == SubSeq(s, Len(s) - Min(n, Len(s)) + 1, Len(s))

(***************************************************************************)
(* Series.pct_change(periods): entry j is Close[j] / Close[j-periods] - 1, *)
(* kept as the exact fraction num / den (den > 0), and NaN for the first   *)
(* `periods` entries.  A comparison with NaN is false.                     *)
(***************************************************************************)
NaN == [nan |-> TRUE, num |-> 0, den |-> 1]

\* Variant: the difference taken the other way round.
pct_changeReversed(col, periods) ==
  [j \in 1..Len(col) |->
     IF j <= periods THEN NaN
     ELSE [nan |-> FALSE, num |-> col[j - periods] - col[j],
           den |-> col[j - periods]]]

pct_change(col, periods) ==
  [j \in 1..Len(col) |->
     IF j <= periods THEN NaN
     ELSE [nan |-> FALSE, num |-> col[j] - col[j - periods],
           den |-> col[j - periods]]]

Lt0(c) == ~c.nan /\ c.num < 0
Gt0(c) == ~c.nan /\ c.num > 0

(***************************************************************************)
(* auto_trends: the streak scan of one ticker (lines 56-84).               *)
(***************************************************************************)
\* Variant: the counter grows whatever the direction so far.
StreakStepIgnoresDirection(s, t, c) ==
  IF Lt0(c) THEN [streak |-> s + 1, trend |-> "fall"]
  ELSE IF Gt0(c) THEN [streak |-> s + 1, trend |-> "rise"]
  ELSE [streak |-> 0, trend |-> "None"]

\* Variant: a flat day leaves counter and direction as they are.
StreakStepFlatKeeps(s, t, c) ==
  IF Lt0(c) THEN [streak |-> IF t = "fall" THEN s + 1 ELSE 1, trend |-> "fall"]
  ELSE IF Gt0(c) THEN [streak |-> IF t = "rise" THEN s + 1 ELSE 1, trend |-> "rise"]
  ELSE [streak |-> s, trend |-> t]

\* One iteration's update of (streak, trend) for the day's change.
StreakStep(s, t, c) ==
  IF Lt0(c) THEN [streak |-> IF t = "fall" THEN s + 1 ELSE 1, trend |-> "fall"]
  ELSE IF Gt0(c) THEN [streak |-> IF t = "rise" THEN s + 1 ELSE 1, trend |-> "rise"]
  ELSE [streak |-> 0, trend |-> "None"]

\* The row appended when the counter reaches the threshold.
TrendRow(symbol, col, t, s) ==
  [symbol |-> symbol, streak_type |-> t, days |-> s,
   last_close |-> col[Len(col)], prices |-> tail(col, TAIL_DAYS)]

\* The scan's loop as steps: one iteration, with its append and break.
ScanIter ==
  /\ pc = "scan"
  /\ i <= Len(Close)
  /\ LET st == StreakStep(streak, trend, pct_change(Close, 1)[i])
     IN  /\ streak' = st.streak
         /\ trend' = st.trend
         /\ IF st.streak >= STREAK_MIN
            THEN /\ emitted' = Append(emitted,
                                      TrendRow(NIFTY_100[1], Close, st.trend, st.streak))
                 /\ pc' = "done"
                 /\ i' = i
            ELSE /\ emitted' = emitted
                 /\ pc' = "scan"
                 /\ i' = i + 1
  /\ UNCHANGED << Close, reqVars >>

\* range(1, len(df)) is exhausted without a break.
ScanExit ==
  /\ pc = "scan"
  /\ i > Len(Close)
  /\ pc' = "done"
  /\ UNCHANGED << Close, i, streak, trend, emitted, reqVars >>

(***************************************************************************)
(* The Close columns the scan is explored on: every series of 1..MaxLen    *)
(* closes that moves by -1, 0 or +1 a day, that is every sequence of       *)
(* falls, flat days and rises of up to MaxLen - 1 days.                    *)
(***************************************************************************)
RECURSIVE Walk(_, _)
Walk(start, moves) ==
  IF moves = << >> THEN << start >>
  ELSE << start >> \o Walk(start + Head(moves), Tail(moves))

ScanInputs ==
  UNION { { Walk(Base, m) : m \in [1..n -> {-1, 0, 1}] } : n \in 0..(MaxLen - 1) }

InitRequestVars ==
  /\ NIFTY_100 = SubSeq(Symbols, 1, NumTickers)
  /\ endpoint = "none"
  /\ running = FALSE
  /\ requests = 0
  /\ k = 1
  /\ fetched = << >>
  /\ results = << >>
  /\ response = NoResponse

InitScan ==
  /\ InitRequestVars
  /\ Close \in ScanInputs
  /\ i = 2
  /\ streak = 0
  /\ trend = "None"
  /\ emitted = << >>
  /\ pc = "scan"

NextScan == ScanIter \/ ScanExit

SpecScan == InitScan /\ [][NextScan]_vars

(***************************************************************************)
(* yf.download and get_stock_data (lines 28-42).  A download raises, or    *)
(* gives a frame: empty, without a Close column, or with one.              *)
(***************************************************************************)
DataFrame ==
  [raises |-> FALSE, empty |-> TRUE, columns |-> {}, Close |-> << >>]
Raises ==
  [raises |-> TRUE, empty |-> TRUE, columns |-> {}, Close |-> << >>]
NoCloseFrame ==
  [raises |-> FALSE, empty |-> FALSE,
   columns |-> {"High", "Low", "Open", "Volume"}, Close |-> << >>]
Frame(col) ==
  [raises |-> FALSE, empty |-> FALSE,
   columns |-> {"Close", "High", "Low", "Open", "Volume"}, Close |-> col]

Failures == { Raises, DataFrame, NoCloseFrame }

get_stock_data(download) ==
  IF download.raises THEN DataFrame
  ELSE IF download.empty THEN DataFrame
  ELSE download

\* The handlers' test `df.empty or "Close" not in df.columns`.
Skip(df) == df.empty \/ "Close" \notin df.columns

(***************************************************************************)
(* The frames a request is explored on.  period="1mo" gives about twenty   *)
(* daily rows; each handler is explored on frames that straddle the window *)
(* it computes on (3 days, 5 days, 20 days).                               *)
(***************************************************************************)
Run(d, n) == [j \in 1..n |-> d]

\* No change at all, runs of STREAK_MIN - 1 .. MaxRun falls or rises, a full
\* run followed by the opposite one, and two days one way, a flat day, then
\* one more day that way.
TrendFeed ==
  Failures \cup
  { Frame(Walk(Base, m)) :
      m \in { << >> }
            \cup { Run(d, n) : d \in {-1, 1}, n \in (STREAK_MIN - 1)..MaxRun }
            \cup { Run(d, MaxRun) \o Run(-d, MaxRun) : d \in {-1, 1} }
            \cup { << d, d, 0, d >> : d \in {-1, 1} } }

\* PERIODS or PERIODS + 2 closes on a line of slope -MaxTick .. MaxTick.
MomentumFeed ==
  Failures \cup
  { Frame([j \in 1..n |-> Base + s * j]) :
      n \in {PERIODS, PERIODS + 2}, s \in (-MaxTick)..MaxTick }

\* n closes at Base, but the close of day pos, which is Base + d.
Blip(n, pos, d) == [j \in 1..n |-> IF j = pos THEN Base + d ELSE Base]

\* One close short of the window; a full window with the last or the last
\* but one close off Base; one close more than the window, the first off.
SMAFeed ==
  Failures \cup
  { Frame(Blip(SMA_PERIOD - 1, 1, 0)) } \cup
  { Frame(Blip(SMA_PERIOD, pos, d)) :
      pos \in (SMA_PERIOD - 1)..SMA_PERIOD, d \in (-MaxTick)..MaxTick } \cup
  { Frame(Blip(SMA_PERIOD + 1, 1, MaxTick)) }

(***************************************************************************)
(* jsonify.                                                                *)
(***************************************************************************)
jsonify_error(msg) == [NoResponse EXCEPT !.status = 400, !.error = msg]
jsonify_rows(rows) == [NoResponse EXCEPT !.status = 200, !.rows = rows]

\* The permutations of 1..n.
Perms(n) ==
  { p \in [1..n -> 1..n] : \A a, b \in 1..n : a # b => p[a] # p[b] }

(***************************************************************************)
(* A handler starts: its locals are fresh.                                 *)
(***************************************************************************)
Endpoints ==
  { "auto_trends", "momentum_stocks", "high_low_performers",
    "moving_average_stocks" }

\* Variant: results is shared by the requests and never emptied.
BeginKeepsResults ==
  /\ ~running
  /\ requests < MaxRequests
  /\ requests' = requests + 1
  /\ \E e \in Endpoints : endpoint' = e
  /\ running' = TRUE
  /\ k' = 1
  /\ fetched' = << >>
  /\ response' = NoResponse
  /\ UNCHANGED << NIFTY_100, results, scanVars >>

Begin ==
  /\ ~running
  /\ requests < MaxRequests
  /\ requests' = requests + 1
  /\ \E e \in Endpoints : endpoint' = e
  /\ running' = TRUE
  /\ k' = 1
  /\ fetched' = << >>
  /\ results' = << >>
  /\ response' = NoResponse
  /\ UNCHANGED << NIFTY_100, scanVars >>

(***************************************************************************)
(* auto_trends (lines 47-89).                                              *)
(***************************************************************************)
\* Variant: the scan goes on after it appended a row.
RECURSIVE ScanFromNoBreak(_, _, _, _, _)
ScanFromNoBreak(symbol, col, j, s, t) ==
  IF j > Len(col) THEN << >>
  ELSE LET st == StreakStep(s, t, pct_change(col, 1)[j])
       IN  IF st.streak >= STREAK_MIN
           THEN << TrendRow(symbol, col, st.trend, st.streak) >>
                \o ScanFromNoBreak(symbol, col, j + 1, st.streak, st.trend)
           ELSE ScanFromNoBreak(symbol, col, j + 1, st.streak, st.trend)

\* The scan of one ticker from day j on: the rows it appends to results.
RECURSIVE ScanFrom(_, _, _, _, _)
ScanFrom(symbol, col, j, s, t) ==
  IF j > Len(col) THEN << >>
  ELSE LET st == StreakStep(s, t, pct_change(col, 1)[j])
       IN  IF st.streak >= STREAK_MIN
           THEN << TrendRow(symbol, col, st.trend, st.streak) >>
           ELSE ScanFrom(symbol, col, j + 1, st.streak, st.trend)

\* Variant: a failed fetch ends the loop.
TrendsTickerBreaksOnFailure ==
  /\ running /\ endpoint = "auto_trends"
  /\ k <= Len(NIFTY_100)
  /\ \E download \in TrendFeed :
       LET df == get_stock_data(download)
       IN  /\ fetched' = Append(fetched, [symbol |-> NIFTY_100[k], data |-> download])
           /\ results' = IF Skip(df) THEN results
                         ELSE results \o ScanFrom(NIFTY_100[k], df.Close, 2, 0, "None")
           /\ k' = IF Skip(df) THEN Len(NIFTY_100) + 1 ELSE k + 1
  /\ UNCHANGED << NIFTY_100, endpoint, running, requests, response, scanVars >>

\* One pass of the loop over NIFTY_100: fetch, skip or scan.
TrendsTicker ==
  /\ running /\ endpoint = "auto_trends"
  /\ k <= Len(NIFTY_100)
  /\ \E download \in TrendFeed :
       LET df == get_stock_data(download)
       IN  /\ fetched' = Append(fetched, [symbol |-> NIFTY_100[k], data |-> download])
           /\ results' = IF Skip(df) THEN results
                         ELSE results \o ScanFrom(NIFTY_100[k], df.Close, 2, 0, "None")
           /\ k' = k + 1
  /\ UNCHANGED << NIFTY_100, endpoint, running, requests, response, scanVars >>

\* Variant: the list is returned even when it is empty.
TrendsReturnNoCheck ==
  /\ running /\ endpoint = "auto_trends"
  /\ k > Len(NIFTY_100)
  /\ response' = jsonify_rows(results)
  /\ running' = FALSE
  /\ UNCHANGED << NIFTY_100, endpoint, requests, k, fetched, results, scanVars >>

\* After the loop: 400 when nothing was appended, else the rows.
TrendsReturn ==
  /\ running /\ endpoint = "auto_trends"
  /\ k > Len(NIFTY_100)
  /\ response' = IF results = << >> THEN jsonify_error("No trend data found")
                 ELSE jsonify_rows(results)
  /\ running' = FALSE
  /\ UNCHANGED << NIFTY_100, endpoint, requests, k, fetched, results, scanVars >>

(***************************************************************************)
(* calculate_momentum_data (lines 94-125), momentum_stocks (130-138) and   *)
(* high_low_performers (143-169).                                          *)
(***************************************************************************)
\* df["change_pct"].dropna().empty
AllNaN(column) == \A j \in 1..Len(column) : column[j].nan

\* Variant: the change is taken against the first close of the frame.
MomentumRowsAgainstFirst(symbol, col) ==
  LET change == pct_change(col, Len(col) - 1)
  IN  IF Len(col) <= PERIODS THEN << >>
      ELSE << [symbol |-> symbol,
               change_pct |-> RoundDiv(10000 * change[Len(col)].num,
                                       change[Len(col)].den),
               last_close |-> col[Len(col)]] >>

\* The rows one ticker appends: none when no change is defined, else one,
\* with the last change in percent rounded to two decimals.
MomentumRows(symbol, col) ==
  LET change == pct_change(col, PERIODS)
  IN  IF AllNaN(change) THEN << >>
      ELSE << [symbol |-> symbol,
               change_pct |-> RoundDiv(10000 * change[Len(col)].num,
                                       change[Len(col)].den),
               last_close |-> col[Len(col)]] >>

\* sort_values(by="change_pct", ascending=False): pandas' default sort is
\* not stable, so rows of equal change_pct may come in any order.
SortByChangePct(rows) ==
  { [j \in 1..Len(rows) |-> rows[p[j]]] :
      p \in { q \in Perms(Len(rows)) :
                \A a, b \in 1..Len(rows) :
                   a < b => rows[q[a]].change_pct >= rows[q[b]].change_pct } }

MomentumTicker ==
  /\ running /\ endpoint \in {"momentum_stocks", "high_low_performers"}
  /\ k <= Len(NIFTY_100)
  /\ \E download \in MomentumFeed :
       LET df == get_stock_data(download)
       IN  /\ fetched' = Append(fetched, [symbol |-> NIFTY_100[k], data |-> download])
           /\ results' = IF Skip(df) THEN results
                         ELSE results \o MomentumRows(NIFTY_100[k], df.Close)
           /\ k' = k + 1
  /\ UNCHANGED << NIFTY_100, endpoint, running, requests, response, scanVars >>

MomentumReturn ==
  /\ running /\ endpoint = "momentum_stocks"
  /\ k > Len(NIFTY_100)
  /\ IF results = << >>
     THEN response' = jsonify_error("No valid momentum data found")
     ELSE \E df_results \in SortByChangePct(results) :
            response' = jsonify_rows(df_results)
  /\ running' = FALSE
  /\ UNCHANGED << NIFTY_100, endpoint, requests, k, fetched, results, scanVars >>

\* N of high_low_performers for a table of `count` rows.
TopN(count) == IF count < TOP_N THEN count \div 2 ELSE TOP_N

HighLowReturn ==
  /\ running /\ endpoint = "high_low_performers"
  /\ k > Len(NIFTY_100)
  /\ IF results = << >>
     THEN response' = jsonify_error("No valid momentum data found")
     ELSE \E df_results \in SortByChangePct(results) :
            response' = [NoResponse EXCEPT
                           !.status = 200,
                           !.high = head(df_results, TopN(Len(df_results))),
                           !.low = tail(df_results, TopN(Len(df_results))),
                           !.period = "5-Day (1 Week)",
                           !.N = TopN(Len(df_results))]
  /\ running' = FALSE
  /\ UNCHANGED << NIFTY_100, endpoint, requests, k, fetched, results, scanVars >>

(***************************************************************************)
(* moving_average_stocks (lines 176-218).                                  *)
(***************************************************************************)
\* Series.rolling(window).mean(): the exact fraction num / den, NaN for the
\* first window - 1 entries.
rolling_mean(col, window) ==
  [j \in 1..Len(col) |->
     IF j < window THEN NaN
     ELSE [nan |-> FALSE, num |-> SumSeq(SubSeq(col, j - window + 1, j)),
           den |-> window]]

\* Variant: a close equal to the average counts as above it.
SMARowsAboveOnEquality(symbol, col) ==
  LET SMA == rolling_mean(col, SMA_PERIOD)
      last_close == col[Len(col)]
      last_sma == SMA[Len(col)]
  IN  IF AllNaN(SMA) THEN << >>
      ELSE << [symbol |-> symbol,
               sma_period |-> SMA_PERIOD,
               last_close |-> last_close,
               last_sma |-> RoundDiv(last_sma.num, last_sma.den),
               status |-> IF last_close * last_sma.den >= last_sma.num
                          THEN "Above SMA" ELSE "Below SMA",
               deviation_pct |->
                 RoundDiv(10000 * (last_close * last_sma.den - last_sma.num),
                          last_sma.num)] >>

\* The rows one ticker appends.  last_close > last_sma and the deviation
\* (last_close - last_sma) / last_sma * 100 are computed on num / den.
SMARows(symbol, col) ==
  LET SMA == rolling_mean(col, SMA_PERIOD)
      last_close == col[Len(col)]
      last_sma == SMA[Len(col)]
  IN  IF AllNaN(SMA) THEN << >>
      ELSE << [symbol |-> symbol,
               sma_period |-> SMA_PERIOD,
               last_close |-> last_close,
               last_sma |-> RoundDiv(last_sma.num, last_sma.den),
               status |-> IF last_close * last_sma.den > last_sma.num
                          THEN "Above SMA" ELSE "Below SMA",
               deviation_pct |->
                 RoundDiv(10000 * (last_close * last_sma.den - last_sma.num),
                          last_sma.num)] >>

\* sort_values(by="deviation_pct", ascending=False), ties in any order.
SortByDeviation(rows) ==
  { [j \in 1..Len(rows) |-> rows[p[j]]] :
      p \in { q \in Perms(Len(rows)) :
                \A a, b \in 1..Len(rows) :
                   a < b => rows[q[a]].deviation_pct >= rows[q[b]].deviation_pct } }

MovingAverageTicker ==
  /\ running /\ endpoint = "moving_average_stocks"
  /\ k <= Len(NIFTY_100)
  /\ \E download \in SMAFeed :
       LET df == get_stock_data(download)
       IN  /\ fetched' = Append(fetched, [symbol |-> NIFTY_100[k], data |-> download])
           /\ results' = IF Skip(df) THEN results
                         ELSE results \o SMARows(NIFTY_100[k], df.Close)
           /\ k' = k + 1
  /\ UNCHANGED << NIFTY_100, endpoint, running, requests, response, scanVars >>

MovingAverageReturn ==
  /\ running /\ endpoint = "moving_average_stocks"
  /\ k > Len(NIFTY_100)
  /\ IF results = << >>
     THEN response' = jsonify_error("No valid Moving Average data found")
     ELSE \E df_results \in SortByDeviation(results) :
            response' = jsonify_rows(df_results)
  /\ running' = FALSE
  /\ UNCHANGED << NIFTY_100, endpoint, requests, k, fetched, results, scanVars >>

(***************************************************************************)
(* The application: requests are served one after the other.               *)
(***************************************************************************)
Init ==
  /\ InitRequestVars
  /\ Close = << Base >>
  /\ i = 2
  /\ streak = 0
  /\ trend = "None"
  /\ emitted = << >>
  /\ pc = "done"

Next ==
  \/ Begin
  \/ TrendsTicker
  \/ TrendsReturn
  \/ MomentumTicker
  \/ MomentumReturn
  \/ HighLowReturn
  \/ MovingAverageTicker
  \/ MovingAverageReturn

Spec == Init /\ [][Next]_vars

(***************************************************************************)
(* Vocabulary of the claims about the scan, read off the Close column      *)
(* itself: the direction of day j (2..Len) against day j - 1.              *)
(***************************************************************************)
DirOf(col, j) ==
  IF col[j] < col[j - 1] THEN -1
  ELSE IF col[j] > col[j - 1] THEN 1 ELSE 0

\* Days j-2, j-1, j of col all move in direction d (d # 0).
Run3In(col, j, d) ==
  /\ j >= 4 /\ j <= Len(col)
  /\ DirOf(col, j) = d /\ DirOf(col, j - 1) = d /\ DirOf(col, j - 2) = d

Dir(j) == DirOf(Close, j)

Run3At(j, d) == Run3In(Close, j, d)

HasRun3 == \E j \in 4..Len(Close) : Run3At(j, -1) \/ Run3At(j, 1)
HasFall3 == \E j \in 4..Len(Close) : Run3At(j, -1)

\* Number of consecutive days ending at day j that move as day j does.
RunLen(j) ==
  IF j < 2 \/ Dir(j) = 0 THEN 0
  ELSE Cardinality({ m \in 2..j : \A q \in m..j : Dir(q) = Dir(j) })

\* The last day the scan has processed (1: none yet).
LastDay == IF emitted # << >> THEN i ELSE i - 1

\* C1: the scan emits a result if and only if the day-over-day changes
\* contain 3 consecutive strictly negative or 3 consecutive strictly positive
\* changes; the counter is the length of the same-direction run ending at the
\* last processed day (0 after a flat day), and the result is emitted at the
\* first day that ends a run of 3.
C1_EmitsIffRunOfThree ==
  /\ streak = RunLen(LastDay)
  /\ pc = "scan" => emitted = << >>
  /\ pc = "done" => (emitted # << >> <=> HasRun3)
  /\ emitted # << >> =>
       /\ Len(emitted) = 1
       /\ Run3At(i, -1) \/ Run3At(i, 1)
       /\ \A j \in 4..(i - 1) : ~Run3At(j, -1) /\ ~Run3At(j, 1)

\* C1 witness: a mixed series (a rise, then three falls) whose scan emitted.
C1_Witness ==
  /\ pc = "done" /\ emitted # << >>
  /\ Len(Close) >= 5 /\ Dir(2) = 1 /\ i = 5

\* C2 as claimed: whenever the closes contain three consecutive declines,
\* the finished scan has reported days = 3 and streak_type = "fall".
C2_Original ==
  (pc = "done" /\ HasFall3) =>
     /\ Len(emitted) = 1
     /\ emitted[1].days = 3
     /\ emitted[1].streak_type = "fall"

\* C2 amended: whenever the closes contain three consecutive declines that
\* are not preceded by three consecutive rises, the finished scan has
\* reported days = 3 and streak_type = "fall".
C2_FallUnlessEarlierRise ==
  (pc = "done" /\ \E j \in 4..Len(Close) :
                     /\ Run3At(j, -1)
                     /\ \A m \in 4..(j - 1) : ~Run3At(m, 1)) =>
     /\ Len(emitted) = 1
     /\ emitted[1].days = 3
     /\ emitted[1].streak_type = "fall"

\* C2 witness: three declines after a flat day and a rise, reported as a fall.
C2_Witness ==
  /\ pc = "done" /\ Len(Close) = 6
  /\ Dir(2) = 0 /\ Dir(3) = 1 /\ Run3At(6, -1)
  /\ Len(emitted) = 1 /\ emitted[1].streak_type = "fall"

\* C3: a flat day resets the scan (counter 0, direction cleared), days before
\* a flat day never count towards the counter after it, and at every step the
\* counter is 0 exactly when the direction is unset and at least 1 otherwise.
C3_FlatDayResets ==
  /\ streak = 0 <=> trend = "None"
  /\ trend # "None" => streak >= 1
  /\ (LastDay >= 2 /\ Dir(LastDay) = 0) => (streak = 0 /\ trend = "None")
  /\ \A j \in 2..LastDay : Dir(j) = 0 => streak <= LastDay - j
  /\ emitted # << >> => (Dir(i) # 0 /\ Dir(i - 1) # 0 /\ Dir(i - 2) # 0)

\* C3 witness: fall, fall, flat, fall has been scanned and emitted nothing.
C3_Witness ==
  /\ pc = "done" /\ emitted = << >> /\ Len(Close) = 5
  /\ Dir(2) = -1 /\ Dir(3) = -1 /\ Dir(4) = 0 /\ Dir(5) = -1
  /\ streak = 1 /\ trend = "fall"

(***************************************************************************)
(* Vocabulary of the claims about a request, read off what was fetched.    *)
(***************************************************************************)
\* The fetch of a ticker failed: it raised, gave no data, or no Close column.
Failing(download) ==
  download.raises \/ download.empty \/ "Close" \notin download.columns

Fetches == 1..Len(fetched)
Finished(e) == ~running /\ endpoint = e
AllFetched ==
  /\ Len(fetched) = Len(NIFTY_100)
  /\ \A j \in Fetches : fetched[j].symbol = NIFTY_100[j]

\* The places of `rows` that hold a row of ticker `symbol`.
RowsFor(rows, symbol) == { a \in 1..Len(rows) : rows[a].symbol = symbol }
SymbolsIn(rows) == { rows[a].symbol : a \in 1..Len(rows) }

\* The rows a handler appends for one fetched ticker that did not fail.
RowsOfTicker(e, f) ==
  CASE e = "auto_trends" -> ScanFrom(f.symbol, f.data.Close, 2, 0, "None")
    [] e \in {"momentum_stocks", "high_low_performers"} ->
         MomentumRows(f.symbol, f.data.Close)
    [] e = "moving_average_stocks" -> SMARows(f.symbol, f.data.Close)
    [] OTHER -> << >>

\* The rows a handler gathers over a list of fetched tickers none of which
\* failed.
RECURSIVE RowsOfList(_, _)
RowsOfList(e, fs) ==
  IF fs = << >> THEN << >>
  ELSE RowsOfTicker(e, Head(fs)) \o RowsOfList(e, Tail(fs))

NotFailing(f) == ~Failing(f.data)
Survivors == SelectSeq(fetched, NotFailing)

\* What a handler may return for the rows it gathered.
ResponsesFor(e, rows) ==
  CASE e = "auto_trends" ->
         { IF rows = << >> THEN jsonify_error("No trend data found")
           ELSE jsonify_rows(rows) }
    [] e = "momentum_stocks" ->
         IF rows = << >> THEN { jsonify_error("No valid momentum data found") }
         ELSE { jsonify_rows(t) : t \in SortByChangePct(rows) }
    [] e = "high_low_performers" ->
         IF rows = << >> THEN { jsonify_error("No valid momentum data found") }
         ELSE { [NoResponse EXCEPT !.status = 200,
                                   !.high = head(t, TopN(Len(t))),
                                   !.low = tail(t, TopN(Len(t))),
                                   !.period = "5-Day (1 Week)",
                                   !.N = TopN(Len(t))] :
                  t \in SortByChangePct(rows) }
    [] e = "moving_average_stocks" ->
         IF rows = << >>
         THEN { jsonify_error("No valid Moving Average data found") }
         ELSE { jsonify_rows(t) : t \in SortByDeviation(rows) }
    [] OTHER -> { NoResponse }

\* C4: a ticker whose fetch fails contributes no row and does not end the
\* loop: a handler returns only after every ticker of the list was fetched,
\* and the rows of each other ticker are those its own data gives, as if the
\* failing ticker were not in the list.
C4_FailedTickerIsSkipped ==
  /\ \A j \in Fetches :
       Failing(fetched[j].data) => RowsFor(results, fetched[j].symbol) = {}
  /\ \A j \in Fetches :
       ~Failing(fetched[j].data) =>
          LET mine(r) == r.symbol = fetched[j].symbol
          IN  SelectSeq(results, mine) = RowsOfTicker(endpoint, fetched[j])
  /\ (~running /\ endpoint # "none") => AllFetched

\* C4 witness: the first two fetches failed (one raised) and the last
\* ticker's row is in the answer, for the moving average.
C4_Witness ==
  /\ Finished("moving_average_stocks")
  /\ fetched[1].data.raises /\ Failing(fetched[2].data)
  /\ response.status = 200
  /\ SymbolsIn(response.rows) = { NIFTY_100[Len(NIFTY_100)] }

C6_NoSharedState ==
  /\ NIFTY_100 = SubSeq(Symbols, 1, NumTickers)
  /\ Len(fetched) = k - 1
  /\ \A j \in Fetches : fetched[j].symbol = NIFTY_100[j]
  /\ endpoint # "none" => results = RowsOfList(endpoint, Survivors)
  /\ (~running /\ endpoint # "none") =>
        response \in ResponsesFor(endpoint, RowsOfList(endpoint, Survivors))

\* C6 witness: a second request, after an earlier one, has answered with rows.
C6_Witness ==
  /\ requests = 2 /\ Finished("auto_trends")
  /\ response.status = 200 /\ Len(response.rows) = Len(NIFTY_100)

\* C7: a successful momentum_stocks response has exactly one row for every
\* ticker whose fetch gave more than 5 closes and none for another ticker;
\* the row's change_pct is the last close against the close 5 days earlier,
\* in percent rounded to two decimals; rows are in non-increasing order of
\* change_pct.
C7_MomentumRows ==
  (Finished("momentum_stocks") /\ response.status = 200) =>
     /\ \A j \in Fetches :
          LET col == fetched[j].data.Close
              n == Len(col)
              hits == RowsFor(response.rows, fetched[j].symbol)
          IN  IF ~Failing(fetched[j].data) /\ n > 5
              THEN /\ Cardinality(hits) = 1
                   /\ \A h \in hits :
                        response.rows[h].change_pct =
                          RoundDiv(10000 * (col[n] - col[n - 5]), col[n - 5])
              ELSE hits = {}
     /\ SymbolsIn(response.rows) \subseteq { fetched[j].symbol : j \in Fetches }
     /\ \A a, b \in 1..Len(response.rows) :
          a < b => response.rows[a].change_pct >= response.rows[b].change_pct

\* C7 witness: one ticker had only 5 closes and has no row; the other two
\* have rows, the larger change first.
C7_Witness ==
  /\ Finished("momentum_stocks") /\ response.status = 200
  /\ \E j \in Fetches : ~Failing(fetched[j].data) /\ Len(fetched[j].data.Close) = 5
  /\ Len(response.rows) = 2
  /\ response.rows[1].change_pct > response.rows[2].change_pct
  /\ response.rows[1].symbol = NIFTY_100[3]

\* The tickers whose fetch gave more than 5 closes.
WithMomentum ==
  { j \in Fetches : ~Failing(fetched[j].data) /\ Len(fetched[j].data.Close) > 5 }

\* C8 as claimed: in a successful high_low_performers response N is 3 when
\* at least 3 tickers have momentum rows and floor(count / 2) otherwise,
\* high and low have N rows each, high holds the largest change_pct and low
\* the smallest, and no ticker is in both.
C8_Original ==
  (Finished("high_low_performers") /\ response.status = 200) =>
     LET count == Cardinality(WithMomentum)
         N == IF count >= 3 THEN 3 ELSE count \div 2
     IN  /\ response.N = N
         /\ Len(response.high) = N /\ Len(response.low) = N
         /\ \A a \in 1..Len(response.high), b \in 1..Len(results) :
              results[b].symbol \notin SymbolsIn(response.high) =>
                 response.high[a].change_pct >= results[b].change_pct
         /\ \A a \in 1..Len(response.low), b \in 1..Len(results) :
              results[b].symbol \notin SymbolsIn(response.low) =>
                 response.low[a].change_pct <= results[b].change_pct
         /\ SymbolsIn(response.high) \cap SymbolsIn(response.low) = {}

\* The tickers whose fetch gave at least 20 closes.
WithSMA ==
  { j \in Fetches : ~Failing(fetched[j].data) /\ Len(fetched[j].data.Close) >= 20 }

\* What C9 says of the rows but for the order of the two statuses: one row
\* per ticker with at least 20 closes and none for another, last_sma the
\* mean of the last 20 closes (rounded to two decimals), the status "Above
\* SMA" exactly when the last close is greater than that mean, and rows in
\* non-increasing order of deviation_pct.
SMARowsAsClaimed ==
  /\ \A j \in Fetches :
       LET col == fetched[j].data.Close
           n == Len(col)
           hits == RowsFor(response.rows, fetched[j].symbol)
       IN  IF j \in WithSMA
           THEN /\ Cardinality(hits) = 1
                /\ \A h \in hits :
                     LET sum == SumSeq(SubSeq(col, n - 19, n))
                     IN  /\ response.rows[h].last_sma = RoundDiv(sum, 20)
                         /\ response.rows[h].status =
                              IF 20 * col[n] > sum THEN "Above SMA" ELSE "Below SMA"
           ELSE hits = {}
  /\ SymbolsIn(response.rows) \subseteq { fetched[j].symbol : j \in Fetches }
  /\ \A a, b \in 1..Len(response.rows) :
       a < b => response.rows[a].deviation_pct >= response.rows[b].deviation_pct

\* C9 as claimed: the above, and every "Above SMA" row precedes every
\* "Below SMA" row.
C9_Original ==
  (Finished("moving_average_stocks") /\ response.status = 200) =>
     /\ SMARowsAsClaimed
     /\ \A a, b \in 1..Len(response.rows) :
          (response.rows[a].status = "Above SMA"
             /\ response.rows[b].status = "Below SMA") => a < b

\* C9 amended: the above, and every "Above SMA" row precedes every "Below
\* SMA" row whose deviation_pct differs from its own.
C9_AboveFirstUnlessTied ==
  (Finished("moving_average_stocks") /\ response.status = 200) =>
     /\ SMARowsAsClaimed
     /\ \A a, b \in 1..Len(response.rows) :
          (response.rows[a].status = "Above SMA"
             /\ response.rows[b].status = "Below SMA"
             /\ response.rows[a].deviation_pct # response.rows[b].deviation_pct)
          => a < b

\* C9 witness: one ticker was a close short of the window and has no row; the
\* last ticker's row is above its average and comes first, before the row of
\* a ticker whose last close equals its average.
C9_Witness ==
  /\ Finished("moving_average_stocks") /\ response.status = 200
  /\ \E j \in Fetches : ~Failing(fetched[j].data) /\ j \notin WithSMA
  /\ Len(response.rows) = 2
  /\ response.rows[1].symbol = NIFTY_100[3]
  /\ response.rows[1].status = "Above SMA" /\ response.rows[1].deviation_pct > 0
  /\ response.rows[2].status = "Below SMA" /\ response.rows[2].deviation_pct = 0

\* The place of a ticker in the list.
Pos(symbol) == CHOOSE j \in 1..Len(NIFTY_100) : NIFTY_100[j] = symbol

\* The first day of col that ends three same-direction days.
FirstRun3(col) ==
  CHOOSE j \in 4..Len(col) :
    /\ Run3In(col, j, -1) \/ Run3In(col, j, 1)
    /\ \A m \in 4..(j - 1) : ~Run3In(col, m, -1) /\ ~Run3In(col, m, 1)

\* C10: auto_trends gathers at most one row per ticker, in list order; every
\* row reports days = 3 and the direction of the earliest three same-direction
\* days of the ticker's closes; the successful response is those rows.
C10_OneRowOfThreeDays ==
  endpoint = "auto_trends" =>
     /\ \A a, b \in 1..Len(results) :
          a < b => Pos(results[a].symbol) < Pos(results[b].symbol)
     /\ \A a \in 1..Len(results) :
          LET col == fetched[Pos(results[a].symbol)].data.Close
          IN  /\ results[a].days = 3
              /\ \E j \in 4..Len(col) : Run3In(col, j, -1) \/ Run3In(col, j, 1)
              /\ results[a].streak_type =
                   IF Run3In(col, FirstRun3(col), -1) THEN "fall" ELSE "rise"
     /\ (~running /\ response.status = 200) => response.rows = results

\* C10 witness: a response whose first row is for closes that rose MaxRun
\* days and then fell MaxRun days, reported as a rise of 3 days.
C10_Witness ==
  /\ Finished("auto_trends") /\ response.status = 200
  /\ Len(response.rows) >= 2
  /\ LET col == fetched[Pos(response.rows[1].symbol)].data.Close
     IN  /\ Len(col) = 2 * MaxRun + 1
         /\ DirOf(col, Len(col)) = -1
         /\ \A j \in 2..(MaxRun + 1) : DirOf(col, j) = 1
  /\ response.rows[1].streak_type = "rise" /\ response.rows[1].days = 3

=============================================================================
